---- MODULE Spec2Model ----
(***************************************************************************)
(* A model of grpc-js-helper's error handling (src/src/error-handling.ts): *)
(* the ServiceError re-typing, the isServiceError predicate, the           *)
(* getServiceStatus accessor and the serviceCall wrapper with its bounded  *)
(* retry of the transient INTERNAL stream-reset failure.                   *)
(*                                                                         *)
(* JavaScript values are records.  `ty` is the value's category            *)
(* (undefined, null, a primitive, an object), `proto` the prototype an     *)
(* object's chain starts at, and each property the code reads is a pair    *)
(* [t |-> its typeof, v |-> its payload].  `id` names the invocation of    *)
(* the wrapped operation that created the value (0: created by the         *)
(* runtime or by this module), so that "the same object" is decidable,     *)
(* and `lock` what keeps an object from being re-typed in place.           *)
(***************************************************************************)
EXTENDS Integers, Sequences, FiniteSets

\* ------------------------------------------------------------------ bounds

\* largest internalErrorRetryMaxCount a caller configures in the model
MaxRetry == 3

\* ------------------------------------------------- the status enumeration

\* @grpc/grpc-js status: OK = 0 ... UNAUTHENTICATED = 16
StatusLast == 16
INTERNAL == 13
UNAVAILABLE == 14
DefaultRetryMaxCount == 2

\* typeof ServiceStatus[n] !== "undefined"
InServiceStatus(n) == n \in 0..StatusLast

\* ------------------------------------------------------------- strings

\* "Received RST_STREAM with code 2"
Marker ==
  << "R","e","c","e","i","v","e","d"," ","R","S","T","_","S","T","R","E","A","M",
     " ","w","i","t","h"," ","c","o","d","e"," ","2" >>

\* "Received RST_STREAM with code 2 (Internal server error)"
MarkerFull ==
  Marker \o << " ","(","I","n","t","e","r","n","a","l"," ","s","e","r","v","e","r",
               " ","e","r","r","o","r",")" >>

\* "Received RST_STREAM with code 1": differs from the marker in its last character
NearMarker == SubSeq(Marker, 1, Len(Marker) - 1) \o << "1" >>

\* "Received RST_STREAM with code ": the marker cut short
ShortMarker == SubSeq(Marker, 1, Len(Marker) - 1)

\* " Received RST_STREAM with code 2": the marker, not at the start
ShiftedMarker == << " " >> \o Marker

\* String.prototype.startsWith
StartsWith(s, prefix) ==
  /\ Len(s) >= Len(prefix)
  /\ SubSeq(s, 1, Len(prefix)) = prefix

\* ---------------------------------------------------- property values

NoCode == [t |-> "undefined", v |-> 0]
NoDetails == [t |-> "undefined", v |-> << >>]
NoMetadata == [t |-> "undefined", v |-> "undefined"]

Num(n) == [t |-> "number", v |-> n]
Str(s) == [t |-> "string", v |-> s]

\* metadata values: a Metadata container, another object, null (typeof
\* "object", no properties), an object without a constructor
\* (Object.create(null)), a primitive, or absent
MetadataObj == [t |-> "object", v |-> "Metadata"]
OtherObj == [t |-> "object", v |-> "Object"]
NullObj == [t |-> "object", v |-> "null"]
BareObj == [t |-> "object", v |-> "no constructor"]
StrMetadata == [t |-> "string", v |-> "Metadata"]

CodeValues ==
  { NoCode, [t |-> "string", v |-> INTERNAL], Num(INTERNAL), Num(UNAVAILABLE),
    Num(0), Num(StatusLast), Num(StatusLast + 1), Num(-1) }

DetailsValues ==
  { NoDetails, [t |-> "number", v |-> << >>], Str(<< >>), Str(Marker),
    Str(MarkerFull), Str(NearMarker), Str(ShortMarker), Str(ShiftedMarker) }

MetadataValues ==
  { NoMetadata, MetadataObj, OtherObj, NullObj, BareObj, StrMetadata }

\* --------------------------------------------------------------- values

NonObject(ty) ==
  [ ty |-> ty, proto |-> "none", name |-> "undefined", message |-> "undefined",
    stack |-> "undefined", cause |-> "undefined",
    code |-> NoCode, details |-> NoDetails, metadata |-> NoMetadata, id |-> 0,
    lock |-> "none" ]

Undefined == NonObject("undefined")
Null == NonObject("null")
Primitive == NonObject("primitive")

\* what the creator of an object did to it before handing it over: nothing,
\* Object.preventExtensions or Object.seal ("not extensible"), an own `name`
\* defined read-only, or Object.freeze (not extensible, every own property
\* read-only)
Locks == {"none", "not extensible", "read-only name", "frozen"}

\* an object created by invocation `id` of the wrapped operation; a plain
\* object has no name, message or stack, an error has its own message and
\* stack, and an instance of ServiceError its own name (line 6, line 50)
Obj(proto, code, details, metadata, cause, id) ==
  [ ty |-> "object", proto |-> proto,
    name |-> IF proto = "Object" THEN "undefined" ELSE proto,
    message |-> IF proto = "Object" THEN "undefined" ELSE "13 INTERNAL",
    stack |-> IF proto = "Object" THEN "undefined" ELSE "at operation",
    cause |-> cause,
    code |-> code, details |-> details, metadata |-> metadata, id |-> id,
    lock |-> "none" ]

\* the object v after its creator locked it
Locked(v, l) == [v EXCEPT !.lock = l]

\* a TypeError the runtime or this module creates
TypeError(message) ==
  [ ty |-> "object", proto |-> "TypeError", name |-> "TypeError",
    message |-> message, stack |-> "at error-handling", cause |-> "undefined",
    code |-> NoCode, details |-> NoDetails, metadata |-> NoMetadata, id |-> 0,
    lock |-> "none" ]

\* error instanceof Error: Error.prototype is on the chain
InstanceOfError(error) ==
  error.ty = "object" /\ error.proto \in {"Error", "TypeError", "ServiceError"}

\* error instanceof ServiceError
InstanceOfServiceError(error) ==
  error.ty = "object" /\ error.proto = "ServiceError"

\* ------------------------------------------------- completion records

\* how a call or an operation ended, and with which value
Return(v) == [how |-> "return", value |-> v]
Throw(v) == [how |-> "throw", value |-> v]

\* ------------------------------------------------------- isServiceError

\* the predicate without its instanceof test
isServiceErrorAnyObject(error) ==
  IF error.code.t # "number" \/ ~InServiceStatus(error.code.v)
  THEN Return(FALSE)
  ELSE IF error.details.t # "string"
  THEN Return(FALSE)
  ELSE IF error.metadata.t = "object"
  THEN IF error.metadata.v \in {"null", "no constructor"}
       THEN Throw(TypeError("Cannot read properties of null or undefined"))
       ELSE Return(error.metadata.v = "Metadata")
  ELSE Return(FALSE)

\* isServiceError(error): line 102 reads metadata.constructor.name of every
\* metadata whose typeof is "object"; null and an object without a
\* constructor make that read throw a TypeError
isServiceError(error) ==
  IF InstanceOfError(error)
  THEN IF error.code.t # "number" \/ ~InServiceStatus(error.code.v)
       THEN Return(FALSE)
       ELSE IF error.details.t # "string"
       THEN Return(FALSE)
       ELSE IF error.metadata.t = "object"
       THEN IF error.metadata.v \in {"null", "no constructor"}
            THEN Throw(TypeError("Cannot read properties of null or undefined"))
            ELSE Return(error.metadata.v = "Metadata")
       ELSE Return(FALSE)
  ELSE Return(FALSE)

\* ----------------------------------------------------- getServiceStatus

\* getServiceStatus(error): reading .code of null or undefined throws
getServiceStatus(error) ==
  IF error.ty \in {"undefined", "null"}
  THEN Throw(TypeError("Cannot read properties of null or undefined"))
  ELSE IF error.code.t = "number" /\ InServiceStatus(error.code.v)
  THEN Return(error.code)
  ELSE Return(NoCode)

\* ------------------------------------------------ ServiceError.fromError

\* the constructor's result without lines 21-22: its own stack, no cause
NewServiceErrorOwnStack(error) ==
  [ ty |-> "object", proto |-> "ServiceError", name |-> "ServiceError",
    message |-> error.message, stack |-> "at error-handling",
    cause |-> "undefined",
    code |-> error.code, details |-> error.details,
    metadata |-> error.metadata, id |-> 0, lock |-> "none" ]

\* new ServiceError(message, code, details, metadata), then cause and stack
\* copied from the input
NewServiceError(error) ==
  [ ty |-> "object", proto |-> "ServiceError", name |-> "ServiceError",
    message |-> error.message, stack |-> error.stack, cause |-> error.cause,
    code |-> error.code, details |-> error.details,
    metadata |-> error.metadata, id |-> 0, lock |-> "none" ]

\* fromError guarding on the status code alone
fromErrorCodeOnly(error) ==
  IF error.code.t = "number" /\ InServiceStatus(error.code.v)
  THEN Return(NewServiceError(error))
  ELSE Throw(TypeError("not a ServiceError"))

\* ServiceError.fromError(error)
fromError(error) ==
  LET r == isServiceError(error)
  IN  IF r.how = "throw"
      THEN r
      ELSE IF ~r.value
      THEN Throw(TypeError("not a ServiceError"))
      ELSE Return(NewServiceError(error))

\* ------------------------------------------------------------ serviceCall

\* the rejection handler of lines 47-53 and 63-69: the value it throws.
\* Line 48/64: Object.setPrototypeOf throws a TypeError on null and
\* undefined, leaves a primitive alone, and throws a TypeError on an object
\* that is not extensible unless ServiceError.prototype is its prototype
\* already. Line 50/66: the assignment to .name throws a TypeError in
\* strict-mode code (an ES module) on a primitive and on an object whose own
\* name is read-only. Every other object keeps its own properties, gets
\* ServiceError.prototype and the own name "ServiceError", and an object
\* without a message of its own now reads Error.prototype's message, "".
CatchHandler(error) ==
  IF error.ty \in {"undefined", "null"}
  THEN TypeError("Object.setPrototypeOf called on null or undefined")
  ELSE IF error.ty = "primitive"
  THEN TypeError("Cannot create property 'name'")
  ELSE IF error.lock \in {"not extensible", "frozen"}
          /\ error.proto # "ServiceError"
  THEN TypeError("object is not extensible")
  ELSE IF error.lock \in {"read-only name", "frozen"}
  THEN TypeError("Cannot assign to read only property 'name'")
  ELSE [error EXCEPT !.proto = "ServiceError",
                     !.name = "ServiceError",
                     !.message = IF error.message = "undefined"
                                 THEN ""
                                 ELSE error.message]

\* the retry test without its look at the details
IsStreamResetAnyDetails(error) == error.code = Num(INTERNAL)

\* error.code === ServiceStatus.INTERNAL &&
\* error.details.startsWith("Received RST_STREAM with code 2")
IsStreamReset(error) ==
  /\ error.code = Num(INTERNAL)
  /\ StartsWith(error.details.v, Marker)

\* the catch block comparing with <= : one retry too many
CatchBlockOffByOne(error, attempt, max) ==
  IF attempt <= max
  THEN LET r == isServiceError(error)
       IN  IF r.how = "throw"
           THEN [act |-> "throw", value |-> r.value]
           ELSE IF r.value /\ error.code = Num(INTERNAL)
                           /\ StartsWith(error.details.v, Marker)
           THEN [act |-> "continue", value |-> error]
           ELSE [act |-> "throw", value |-> error]
  ELSE [act |-> "throw", value |-> error]

\* the catch block of lines 70-80: continue the loop, or throw a value
CatchBlock(error, attempt, max) ==
  IF attempt < max
  THEN LET r == isServiceError(error)
       IN  IF r.how = "throw"
           THEN [act |-> "throw", value |-> r.value]
           ELSE IF r.value /\ IsStreamReset(error)
           THEN [act |-> "continue", value |-> error]
           ELSE [act |-> "throw", value |-> error]
  ELSE [act |-> "throw", value |-> error]

\* the options' internalErrorRetryMaxCount: [t |-> typeof, nan, v]
Opt(t, nan, v) == [t |-> t, nan |-> nan, v |-> v]
NoOption == Opt("undefined", FALSE, 0)

\* the retry maximum without the >= 0 test of line 57
RetryMaxCountAnyNumber(option) ==
  IF option.t = "number" /\ ~option.nan
  THEN option.v
  ELSE DefaultRetryMaxCount

\* lines 55-59: the retry maximum the loop uses (NaN >= 0 is false)
RetryMaxCount(option) ==
  IF option.t = "number" /\ ~option.nan /\ option.v >= 0
  THEN option.v
  ELSE DefaultRetryMaxCount

\* ------------------------------------------------------------------ state

VARIABLES
  tasks,                       \* the serviceCall invocations of this run
  path,                        \* per task: "none", "promise" or "factory"
  option,                      \* per task: options.internalErrorRetryMaxCount
  internalErrorRetryMaxCount,  \* per task: the local of line 55
  attempt,                     \* per task: the loop counter of line 61
  pc,                          \* per task: "idle", "promise", "call", "await", "caught", "done"
  calls,                       \* per task: invocations of fn() so far
  resets,                      \* per task: invocations the catch block has dealt with that failed with a conforming stream reset
  last,                        \* per task: how the last invocation of the operation ended; an object reads as it stands but for the handler's writes
  caught,                      \* per task: what the await of line 63 is about to throw
  result,                      \* per task: how serviceCall's promise settled
  fnName,                      \* the helper called on `arg` ("none": not yet)
  arg,                         \* the helper's input
  ret                          \* the helper's completion

vars ==
  << tasks, path, option, internalErrorRetryMaxCount, attempt, pc, calls,
     resets, last, caught, result, fnName, arg, ret >>

callVars ==
  << tasks, path, option, internalErrorRetryMaxCount, attempt, pc, calls,
     resets, last, caught, result >>

helperVars == << fnName, arg, ret >>

Pending == [how |-> "pending", value |-> Undefined]
Resolved(v) == [how |-> "resolved", value |-> v]
Rejected(v) == [how |-> "rejected", value |-> v]
Thrown(v) == [how |-> "thrown", value |-> v]

\* ----------------------------------------------------------------- inputs

\* what a caller passes as options.internalErrorRetryMaxCount: nothing, a
\* number from -1 up, NaN, or a string
OptionValues ==
  { NoOption, Opt("number", TRUE, 0), Opt("string", FALSE, 1) }
    \cup { Opt("number", FALSE, n) : n \in -1..MaxRetry }

\* the prototypes, codes, details and metadata of the objects an invocation
\* may fail with; an instance of ServiceError is an error that went through
\* an inner serviceCall or fromError
FailureProtos == {"Error", "Object", "ServiceError"}
FailureCodes == {NoCode, Num(INTERNAL), Num(UNAVAILABLE)}
FailureDetails == {NoDetails, Str(Marker), Str(MarkerFull), Str(NearMarker)}
FailureMetadata == {MetadataObj, NullObj, NoMetadata}

\* values invocation `id` of the wrapped operation may fail with: no
\* object, an object as it was created, or a locked object with a
\* Metadata, a status code and string details
FailureValues(id) ==
  { Undefined, Null, Primitive }
    \cup { Obj(p, c, d, m, "undefined", id) :
             p \in FailureProtos, c \in FailureCodes, d \in FailureDetails,
             m \in FailureMetadata }
    \cup { Locked(Obj(p, c, d, MetadataObj, "undefined", id), l) :
             p \in FailureProtos, c \in {Num(INTERNAL), Num(UNAVAILABLE)},
             d \in {Str(Marker), Str(NearMarker)}, l \in Locks \ {"none"} }

\* values invocation `id` of the wrapped operation may succeed with
SuccessValues(id) ==
  { Primitive, Obj("Object", NoCode, NoDetails, NoMetadata, "undefined", id) }

\* inputs of the helpers
HelperInputs ==
  { Undefined, Null, Primitive }
    \cup { Obj(p, c, d, m, k, 1) :
             p \in {"Object", "Error", "ServiceError"},
             c \in CodeValues, d \in DetailsValues, m \in MetadataValues,
             k \in {"undefined", "root cause"} }

\* a conforming service error carrying the transient stream reset
IsConformingReset(v) ==
  /\ InstanceOfError(v)
  /\ v.code = Num(INTERNAL)
  /\ v.details.t = "string"
  /\ StartsWith(v.details.v, Marker)
  /\ v.metadata = MetadataObj

\* ------------------------------------------------------------------- Init

IdleTasks(ts) ==
  /\ tasks = ts
  /\ path = [t \in ts |-> "none"]
  /\ option = [t \in ts |-> NoOption]
  /\ internalErrorRetryMaxCount = [t \in ts |-> DefaultRetryMaxCount]
  /\ attempt = [t \in ts |-> 0]
  /\ pc = [t \in ts |-> "idle"]
  /\ calls = [t \in ts |-> 0]
  /\ resets = [t \in ts |-> 0]
  /\ last = [t \in ts |-> [how |-> "none", value |-> Undefined]]
  /\ caught = [t \in ts |-> Undefined]
  /\ result = [t \in ts |-> Pending]

NoHelper ==
  /\ fnName = "none"
  /\ arg = Undefined
  /\ ret = Return(Undefined)

\* one serviceCall about to be made
Init == IdleTasks({1}) /\ NoHelper

\* ---------------------------------------------------------- serviceCall

\* the catch block with `attempt` declared outside serviceCall: one counter
\* for all calls
CatchSharedAttempt(t, error) ==
  LET c == CatchBlock(error, attempt[t], internalErrorRetryMaxCount[t])
  IN  IF c.act = "continue"
      THEN /\ attempt' = [u \in tasks |-> attempt[u] + 1]
           /\ pc' = [pc EXCEPT ![t] = "call"]
           /\ UNCHANGED result
      ELSE /\ result' = [result EXCEPT ![t] = Rejected(c.value)]
           /\ pc' = [pc EXCEPT ![t] = "done"]
           /\ UNCHANGED attempt

\* lines 70-80 on the value the try block threw, as one step of task t
Catch(t, error) ==
  LET c == CatchBlock(error, attempt[t], internalErrorRetryMaxCount[t])
  IN  IF c.act = "continue"
      THEN /\ attempt' = [attempt EXCEPT ![t] = attempt[t] + 1]
           /\ pc' = [pc EXCEPT ![t] = "call"]
           /\ UNCHANGED result
      ELSE /\ result' = [result EXCEPT ![t] = Rejected(c.value)]
           /\ pc' = [pc EXCEPT ![t] = "done"]
           /\ UNCHANGED attempt

\* serviceCall(promise, options): lines 46-53, the handler is attached
ServiceCallPromise(t, o) ==
  /\ pc[t] = "idle"
  /\ path' = [path EXCEPT ![t] = "promise"]
  /\ option' = [option EXCEPT ![t] = o]
  /\ pc' = [pc EXCEPT ![t] = "promise"]
  /\ UNCHANGED << tasks, internalErrorRetryMaxCount, attempt, calls, resets,
                  last, caught, result, helperVars >>

\* the already-started operation fulfils: the value passes through
PromiseResolves(t, v) ==
  /\ pc[t] = "promise"
  /\ last' = [last EXCEPT ![t] = Resolved(v)]
  /\ result' = [result EXCEPT ![t] = Resolved(v)]
  /\ pc' = [pc EXCEPT ![t] = "done"]
  /\ UNCHANGED << tasks, path, option, internalErrorRetryMaxCount, attempt,
                  calls, resets, caught, helperVars >>

\* the already-started operation rejects with v: the handler of lines 47-53
\* runs as one job and rejects the promise serviceCall returns; serviceCall's
\* own promise settles in a later job
PromiseRejects(t, v) ==
  /\ pc[t] = "promise"
  /\ last' = [last EXCEPT ![t] = Rejected(v)]
  /\ caught' = [caught EXCEPT ![t] = CatchHandler(v)]
  /\ pc' = [pc EXCEPT ![t] = "caught"]
  /\ UNCHANGED << tasks, path, option, internalErrorRetryMaxCount, attempt,
                  calls, resets, result, helperVars >>

\* line 47: serviceCall's promise is rejected with what the handler threw
PromiseSettles(t) ==
  /\ pc[t] = "caught"
  /\ path[t] = "promise"
  /\ result' = [result EXCEPT ![t] = Rejected(caught[t])]
  /\ caught' = [caught EXCEPT ![t] = Undefined]
  /\ pc' = [pc EXCEPT ![t] = "done"]
  /\ UNCHANGED << tasks, path, option, internalErrorRetryMaxCount, attempt,
                  calls, resets, last, helperVars >>

\* serviceCall(factory, options): lines 55-61, up to the loop's first turn
ServiceCallFactory(t, o) ==
  /\ pc[t] = "idle"
  /\ path' = [path EXCEPT ![t] = "factory"]
  /\ option' = [option EXCEPT ![t] = o]
  /\ internalErrorRetryMaxCount' =
       [internalErrorRetryMaxCount EXCEPT ![t] = RetryMaxCount(o)]
  /\ attempt' = [attempt EXCEPT ![t] = 0]
  /\ pc' = [pc EXCEPT ![t] = "call"]
  /\ UNCHANGED << tasks, calls, resets, last, caught, result, helperVars >>

\* line 63: fn() returns its promise and the task awaits it
FactoryReturns(t) ==
  /\ pc[t] = "call"
  /\ calls' = [calls EXCEPT ![t] = calls[t] + 1]
  /\ pc' = [pc EXCEPT ![t] = "await"]
  /\ UNCHANGED << tasks, path, option, internalErrorRetryMaxCount, attempt,
                  resets, last, caught, result, helperVars >>

\* line 63: fn() itself throws v; the rejection handler is never attached
\* and the catch block gets v as thrown
FactoryThrows(t, v) ==
  /\ pc[t] = "call"
  /\ calls' = [calls EXCEPT ![t] = calls[t] + 1]
  /\ resets' = [resets EXCEPT ![t] = resets[t] + (IF IsConformingReset(v) THEN 1 ELSE 0)]
  /\ last' = [last EXCEPT ![t] = Thrown(v)]
  /\ Catch(t, v)
  /\ UNCHANGED << tasks, path, option, internalErrorRetryMaxCount, caught,
                  helperVars >>

\* the awaited operation fulfils with v: serviceCall returns it
OperationResolves(t, v) ==
  /\ pc[t] = "await"
  /\ last' = [last EXCEPT ![t] = Resolved(v)]
  /\ result' = [result EXCEPT ![t] = Resolved(v)]
  /\ pc' = [pc EXCEPT ![t] = "done"]
  /\ UNCHANGED << tasks, path, option, internalErrorRetryMaxCount, attempt,
                  calls, resets, caught, helperVars >>

\* the awaited operation rejects with v: the handler of lines 63-69 runs as
\* one job and rejects the promise the task awaits with what it throws;
\* the catch block runs in a later job
OperationRejects(t, v) ==
  /\ pc[t] = "await"
  /\ last' = [last EXCEPT ![t] = Rejected(v)]
  /\ caught' = [caught EXCEPT ![t] = CatchHandler(v)]
  /\ pc' = [pc EXCEPT ![t] = "caught"]
  /\ UNCHANGED << tasks, path, option, internalErrorRetryMaxCount, attempt,
                  calls, resets, result, helperVars >>

\* between the handler's job and the job that resumes or settles the call
\* (the catch block on the factory path, the rejection of serviceCall's
\* promise on the promise path) another callback on the operation's promise
\* runs and assigns the code, details and metadata of the rejected object,
\* unless it is frozen; when the handler rethrew that object the call is
\* about to read what the callback wrote, when the handler threw a
\* TypeError of its own only the rejected object changes
OtherCallback(t, c, d, m) ==
  /\ pc[t] = "caught"
  /\ last[t].value.ty = "object"
  /\ last[t].value.lock # "frozen"
  /\ last' = [last EXCEPT ![t].value.code = c,
                           ![t].value.details = d,
                           ![t].value.metadata = m]
  /\ caught' = IF caught[t].id = last[t].value.id
               THEN [caught EXCEPT ![t].code = c,
                                   ![t].details = d,
                                   ![t].metadata = m]
               ELSE caught
  /\ UNCHANGED << tasks, path, option, internalErrorRetryMaxCount, attempt,
                  pc, calls, resets, result, helperVars >>

\* the await of line 63 throws what the handler threw and the catch block
\* of lines 70-80 classifies it
AwaitThrows(t) ==
  /\ pc[t] = "caught"
  /\ path[t] = "factory"
  /\ resets' = [resets EXCEPT ![t] = resets[t] + (IF IsConformingReset(last[t].value) THEN 1 ELSE 0)]
  /\ Catch(t, caught[t])
  /\ caught' = [caught EXCEPT ![t] = Undefined]
  /\ UNCHANGED << tasks, path, option, internalErrorRetryMaxCount, calls,
                  last, helperVars >>

Next ==
  \/ \E t \in tasks, o \in OptionValues : ServiceCallPromise(t, o)
  \/ \E t \in tasks : \E v \in SuccessValues(1) : PromiseResolves(t, v)
  \/ \E t \in tasks : \E v \in FailureValues(1) : PromiseRejects(t, v)
  \/ \E t \in tasks : PromiseSettles(t)
  \/ \E t \in tasks, o \in OptionValues : ServiceCallFactory(t, o)
  \/ \E t \in tasks : FactoryReturns(t)
  \/ \E t \in tasks : \E v \in FailureValues(calls[t] + 1) : FactoryThrows(t, v)
  \/ \E t \in tasks : \E v \in SuccessValues(calls[t]) : OperationResolves(t, v)
  \/ \E t \in tasks : \E v \in FailureValues(calls[t]) : OperationRejects(t, v)
  \/ \E t \in tasks : \E c \in FailureCodes, d \in FailureDetails,
                           m \in FailureMetadata : OtherCallback(t, c, d, m)
  \/ \E t \in tasks : AwaitThrows(t)

Spec == Init /\ [][Next]_vars

\* the outcomes of an invocation in the runs checked for termination and
\* for concurrent calls: no object, a conforming stream reset, a conforming
\* error that is not one, a plain object carrying the reset, a frozen
\* conforming stream reset, an error that is not extensible
FewFailures(id) ==
  { Null,
    Obj("Error", Num(INTERNAL), Str(MarkerFull), MetadataObj, "undefined", id),
    Obj("Error", Num(UNAVAILABLE), Str(NearMarker), MetadataObj, "undefined", id),
    Obj("Object", Num(INTERNAL), Str(Marker), MetadataObj, "undefined", id),
    Locked(Obj("Error", Num(INTERNAL), Str(Marker), MetadataObj, "undefined", id),
           "frozen"),
    Locked(Obj("Error", Num(UNAVAILABLE), Str(Marker), MetadataObj, "undefined", id),
           "not extensible") }

\* the codes another callback assigns in those runs
FewCodes == {Num(INTERNAL), Num(UNAVAILABLE)}

FewSuccesses(id) ==
  { Obj("Object", NoCode, NoDetails, NoMetadata, "undefined", id) }

\* a started call's own steps: the loop invokes fn() as soon as it is at
\* line 63, an invocation in flight settles, and the job that resumes the
\* task after the handler runs
Progress ==
  \E t \in tasks :
    \/ FactoryReturns(t)
    \/ \E v \in FewFailures(calls[t] + 1) : FactoryThrows(t, v)
    \/ \E v \in FewSuccesses(calls[t]) : OperationResolves(t, v)
    \/ \E v \in FewFailures(calls[t]) : OperationRejects(t, v)
    \/ AwaitThrows(t)

\* the steps of one call with those outcomes
NextLive ==
  \/ \E t \in tasks, o \in OptionValues : ServiceCallPromise(t, o)
  \/ \E t \in tasks : \E v \in FewSuccesses(1) : PromiseResolves(t, v)
  \/ \E t \in tasks : \E v \in FewFailures(1) : PromiseRejects(t, v)
  \/ \E t \in tasks : PromiseSettles(t)
  \/ \E t \in tasks, o \in OptionValues : ServiceCallFactory(t, o)
  \/ Progress
  \/ \E t \in tasks : \E c \in FewCodes :
       OtherCallback(t, c, last[t].value.details, last[t].value.metadata)

\* the call under the assumption that every invocation of the factory
\* eventually settles and every job that is ready runs
SpecLive == Init /\ [][NextLive]_vars /\ WF_vars(Progress)

\* ------------------------------------------------------ concurrent calls

\* options of the calls that run concurrently
ConcurrentOptions ==
  { NoOption, Opt("number", FALSE, 0), Opt("number", FALSE, 1) }

\* two serviceCalls about to be made
InitConcurrent == IdleTasks({1, 2}) /\ NoHelper

\* the steps of the two calls, interleaved in any order
NextConcurrent ==
  \/ \E t \in tasks, o \in ConcurrentOptions : ServiceCallPromise(t, o)
  \/ \E t \in tasks : \E v \in FewSuccesses(1) : PromiseResolves(t, v)
  \/ \E t \in tasks : \E v \in FewFailures(1) : PromiseRejects(t, v)
  \/ \E t \in tasks : PromiseSettles(t)
  \/ \E t \in tasks, o \in ConcurrentOptions : ServiceCallFactory(t, o)
  \/ \E t \in tasks : FactoryReturns(t)
  \/ \E t \in tasks : \E v \in FewFailures(calls[t] + 1) : FactoryThrows(t, v)
  \/ \E t \in tasks : \E v \in FewSuccesses(calls[t]) : OperationResolves(t, v)
  \/ \E t \in tasks : \E v \in FewFailures(calls[t]) : OperationRejects(t, v)
  \/ \E t \in tasks : \E c \in FewCodes :
       OtherCallback(t, c, last[t].value.details, last[t].value.metadata)
  \/ \E t \in tasks : AwaitThrows(t)

SpecConcurrent == InitConcurrent /\ [][NextConcurrent]_vars

\* ------------------------------------------------------------ the helpers

InitHelpers ==
  /\ IdleTasks({})
  /\ fnName = "none"
  /\ arg \in HelperInputs
  /\ ret = Return(Undefined)

CallIsServiceError ==
  /\ fnName = "none"
  /\ fnName' = "isServiceError"
  /\ ret' = isServiceError(arg)
  /\ UNCHANGED << arg, callVars >>

CallGetServiceStatus ==
  /\ fnName = "none"
  /\ fnName' = "getServiceStatus"
  /\ ret' = getServiceStatus(arg)
  /\ UNCHANGED << arg, callVars >>

CallFromError ==
  /\ fnName = "none"
  /\ fnName' = "fromError"
  /\ ret' = fromError(arg)
  /\ UNCHANGED << arg, callVars >>

NextHelpers == CallIsServiceError \/ CallGetServiceStatus \/ CallFromError

SpecHelpers == InitHelpers /\ [][NextHelpers]_vars

\* ------------------------------------------------------------- properties

\* the caller configured a usable maximum: a number that is >= 0
ConfiguredMax(t) ==
  option[t].t = "number" /\ ~option[t].nan /\ option[t].v >= 0

\* code INTERNAL and details starting with the transient marker
HasResetSignature(v) ==
  /\ v.code = Num(INTERNAL)
  /\ v.details.t = "string"
  /\ StartsWith(v.details.v, Marker)

\* b is the object a: the object invocation a.id of the operation created
SameObject(a, b) ==
  /\ b.ty = "object"
  /\ a.ty = "object"
  /\ b.id = a.id
  /\ b.id # 0

\* b is the object a, with a's message, code, details and metadata
SameError(a, b) ==
  /\ b.ty = "object"
  /\ b.id = a.id
  /\ b.message = a.message
  /\ b.code = a.code
  /\ b.details = a.details
  /\ b.metadata = a.metadata

Failed(t) == last[t].how \in {"thrown", "rejected"}

\* C1: on the factory path with a configured maximum N, while every
\* invocation of the factory has failed with a conforming INTERNAL stream
\* reset, the factory has been invoked at most N+1 times, and once
\* serviceCall has settled it was invoked exactly N+1 times and serviceCall
\* failed with the error of the last invocation.
C1_RetriesExactlyMaxThenPropagates ==
  \A t \in tasks :
    (path[t] = "factory" /\ ConfiguredMax(t) /\ resets[t] = calls[t]) =>
      /\ calls[t] <= option[t].v + 1
      /\ pc[t] = "done" =>
           /\ calls[t] = option[t].v + 1
           /\ result[t].how = "rejected"
           /\ SameObject(last[t].value, result[t].value)

\* C2: on the factory path, once an invocation of the factory has failed
\* with an error that, as the catch block finds it, does not carry both code
\* INTERNAL and details starting with the transient marker, the factory is
\* not invoked again, whatever the maximum: the task is about to run its
\* catch block or serviceCall has failed.
C2_OtherFailuresNeverRetried ==
  \A t \in tasks :
    (path[t] = "factory" /\ Failed(t) /\ ~HasResetSignature(last[t].value)) =>
      /\ pc[t] \in {"caught", "done"}
      /\ pc[t] = "done" => result[t].how = "rejected"

C2_Witness ==
  \E t \in tasks :
    /\ path[t] = "factory"
    /\ internalErrorRetryMaxCount[t] >= 1
    /\ last[t] = Rejected(Obj("Error", Num(INTERNAL), Str(NearMarker), MetadataObj, "undefined", 1))
    /\ calls[t] = 1
    /\ pc[t] = "done"
    /\ result[t].how = "rejected"

\* C3: on the factory path with no internalErrorRetryMaxCount given, the
\* maximum is 2: while every invocation has failed with the conforming
\* stream reset the factory has been invoked at most 3 times, and exactly 3
\* times once serviceCall has failed.
C3_DefaultMaxIsTwo ==
  \A t \in tasks :
    (path[t] = "factory" /\ option[t] = NoOption) =>
      /\ internalErrorRetryMaxCount[t] = 2
      /\ resets[t] = calls[t] =>
           /\ calls[t] <= 3
           /\ pc[t] = "done" => (calls[t] = 3 /\ result[t].how = "rejected")

\* C4: on the promise path nothing is ever invoked or retried, whatever the
\* options and the error; a fulfilled operation's value is serviceCall's
\* value, and a rejected operation makes serviceCall fail, with the rejected
\* error object itself carrying the ServiceError prototype and name.
C4_PromisePathPassesThroughWithoutRetry ==
  \A t \in tasks :
    path[t] = "promise" =>
      /\ calls[t] = 0
      /\ attempt[t] = 0
      /\ pc[t] \in {"promise", "caught", "done"}
      /\ pc[t] = "done" =>
           /\ last[t].how = "resolved" => result[t] = Resolved(last[t].value)
           /\ last[t].how = "rejected" =>
                /\ result[t].how = "rejected"
                /\ last[t].value.ty = "object" =>
                     /\ SameObject(last[t].value, result[t].value)
                     /\ InstanceOfServiceError(result[t].value)
                     /\ result[t].value.name = "ServiceError"

\* C5: whenever serviceCall has failed, on either path and for any value the
\* operation rejected with or the factory threw, the value it failed with
\* is an instance of ServiceError.
C5_FailureIsAlwaysServiceError ==
  \A t \in tasks :
    (pc[t] = "done" /\ result[t].how = "rejected") =>
      InstanceOfServiceError(result[t].value)

\* C6: an error serviceCall propagates is the error object the wrapped
\* operation rejected with, re-typed, with the message, code, details and
\* metadata it was rejected with; no replacement error is constructed.
C6_PropagatedErrorIsTheOperationsError ==
  \A t \in tasks :
    (pc[t] = "done" /\ result[t].how = "rejected"
       /\ last[t].how = "rejected" /\ last[t].value.ty = "object") =>
      /\ SameError(last[t].value, result[t].value)
      /\ InstanceOfServiceError(result[t].value)

\* the shape isServiceError requires of code, details and metadata
RequiredShape(v) ==
  /\ v.code.t = "number" /\ InServiceStatus(v.code.v)
  /\ v.details.t = "string"
  /\ v.metadata = MetadataObj

\* C7: for every Error value whose code, details or metadata is missing or
\* not in the required shape, isServiceError returns false and does not
\* throw.
C7_MalformedErrorIsRejectedWithoutThrowing ==
  (fnName = "isServiceError" /\ InstanceOfError(arg) /\ ~RequiredShape(arg)) =>
    /\ ret.how = "return"
    /\ ret.value = FALSE

\* C8: for every input that is not an Error (null, undefined, a primitive, a
\* plain object, also one carrying a valid code, string details and a
\* Metadata metadata) isServiceError returns false.
C8_NonErrorIsNotAServiceError ==
  (fnName = "isServiceError" /\ (arg.ty # "object" \/ arg.proto = "Object")) =>
    /\ ret.how = "return"
    /\ ret.value = FALSE

C8_Witness ==
  /\ fnName = "isServiceError"
  /\ arg = Obj("Object", Num(INTERNAL), Str(MarkerFull), MetadataObj, "undefined", 1)
  /\ ret.how = "return"
  /\ ret.value = FALSE

\* C9: getServiceStatus never throws, for any input including null and
\* undefined: it returns the input's code when that is a number of the
\* status enumeration and undefined for every other input.
C9_StatusAccessorNeverThrows ==
  fnName = "getServiceStatus" =>
    /\ ret.how = "return"
    /\ ret.value = IF arg.code.t = "number" /\ InServiceStatus(arg.code.v)
                   THEN arg.code
                   ELSE NoCode

\* the input passes isServiceError: the predicate returns true
Passes(v) == isServiceError(v).how = "return" /\ isServiceError(v).value

\* C10: for every input that does not pass isServiceError, fromError fails
\* with a TypeError and returns no ServiceError.
C10_FromErrorRejectsNonConforming ==
  (fnName = "fromError" /\ ~Passes(arg)) =>
    /\ ret.how = "throw"
    /\ ret.value.proto = "TypeError"

C10_Witness ==
  /\ fnName = "fromError"
  /\ arg = Obj("Object", Num(UNAVAILABLE), Str(<< >>), MetadataObj, "root cause", 1)
  /\ ret.how = "throw"
  /\ ret.value.proto = "TypeError"

\* what fromError returned for a conforming input: a ServiceError that is a
\* new object, with the input's six properties
C11_Preserved ==
  (fnName = "fromError" /\ Passes(arg)) =>
    /\ ret.how = "return"
    /\ InstanceOfServiceError(ret.value)
    /\ ret.value.id # arg.id
    /\ ret.value.message = arg.message
    /\ ret.value.code = arg.code
    /\ ret.value.details = arg.details
    /\ ret.value.metadata = arg.metadata
    /\ ret.value.stack = arg.stack
    /\ ret.value.cause = arg.cause

\* C11: for every input that passes isServiceError, fromError returns a
\* ServiceError whose message, code, details, metadata, stack and cause
\* equal the input's, and the call leaves the input as it was.
C11_FromErrorPreservesFields ==
  /\ []C11_Preserved
  /\ [][fnName' = "fromError" => arg' = arg]_vars

C11_Witness ==
  /\ fnName = "fromError"
  /\ arg = Obj("Error", Num(INTERNAL), Str(MarkerFull), MetadataObj, "root cause", 1)
  /\ ret.how = "return"
  /\ InstanceOfServiceError(ret.value)
  /\ ret.value.cause = "root cause"

\* the states of a factory-path call around a success after k resets
C12_State ==
  \A t \in tasks :
    path[t] = "factory" =>
      \* a conforming reset on each of the first k <= N invocations is
      \* followed by invocation k+1
      /\ (Failed(t) /\ resets[t] = calls[t]
            /\ calls[t] <= internalErrorRetryMaxCount[t]) =>
           (pc[t] = "call" /\ attempt[t] = calls[t])
      \* the success of invocation k+1 is serviceCall's success, with v
      /\ (last[t].how = "resolved" /\ resets[t] = calls[t] - 1) =>
           /\ pc[t] = "done"
           /\ result[t] = Resolved(last[t].value)
           /\ calls[t] = attempt[t] + 1
           /\ calls[t] <= internalErrorRetryMaxCount[t] + 1
      \* serviceCall resolves only with its last invocation's value
      /\ result[t].how = "resolved" =>
           (last[t].how = "resolved" /\ result[t].value = last[t].value)

\* C12: on the factory path with maximum N, a factory that fails with the
\* conforming stream reset on its first k <= N invocations is invoked a
\* (k+1)-th time; when that invocation succeeds with v serviceCall resolves
\* with v after exactly k+1 invocations and the factory is never invoked
\* again; serviceCall resolves only with the value of its last invocation.
C12_SuccessAfterResets ==
  /\ []C12_State
  /\ [][\A t \in tasks :
          result[t].how = "resolved" =>
            (calls'[t] = calls[t] /\ result'[t] = result[t])]_vars

\* invocations of the factory that have started and not yet settled: every
\* retried failure raised `attempt`, and a call that is about to run its
\* catch block or has settled saw one more settlement
InFlight(t) ==
  calls[t] - attempt[t] - (IF pc[t] \in {"caught", "done"} THEN 1 ELSE 0)

C13_AtMostOneInFlight ==
  \A t \in tasks :
    path[t] = "factory" =>
      /\ InFlight(t) \in {0, 1}
      /\ InFlight(t) = 1 <=> pc[t] = "await"

\* C13: within one serviceCall on the factory path at most one invocation
\* of the factory is in flight at any moment, and invocation i+1 starts only
\* when invocation i has settled with a failure carrying the stream-reset
\* signature.
C13_RetriesAreSequential ==
  /\ []C13_AtMostOneInFlight
  /\ [][\A t \in tasks :
          calls'[t] # calls[t] =>
            /\ calls'[t] = calls[t] + 1
            /\ pc[t] = "call"
            /\ InFlight(t) = 0
            /\ calls[t] > 0 =>
                 /\ Failed(t)
                 /\ last[t].value.id = calls[t]
                 /\ HasResetSignature(last[t].value)]_vars

C13_Witness ==
  \E t \in tasks :
    /\ path[t] = "factory"
    /\ pc[t] = "await"
    /\ calls[t] = 2
    /\ attempt[t] = 1
    /\ last[t].how = "rejected"
    /\ last[t].value.id = 1

\* a call on the factory path has been made / every such call has settled
FactoryCallMade == \E t \in tasks : path[t] = "factory"
FactoryCallsSettled ==
  \A t \in tasks :
    path[t] = "factory" =>
      (pc[t] = "done" /\ result[t].how \in {"resolved", "rejected"})

C14_AttemptBounded ==
  \A t \in tasks :
    /\ attempt[t] >= 0
    /\ attempt[t] <= internalErrorRetryMaxCount[t]
    /\ ConfiguredMax(t) => attempt[t] <= option[t].v

\* C14: when every invocation of the factory eventually settles, a
\* serviceCall on the factory path eventually settles, resolved or rejected;
\* its attempt counter changes only by +1, on a retry, and never exceeds the
\* maximum.
C14_TerminatesWithBoundedAttempts ==
  /\ FactoryCallMade ~> FactoryCallsSettled
  /\ []C14_AttemptBounded
  /\ [][\A t \in tasks :
          /\ attempt'[t] # attempt[t] =>
               (attempt'[t] = attempt[t] + 1 /\ pc'[t] = "call" /\ Failed(t)')
          /\ (pc[t] \in {"call", "await", "caught"} /\ pc'[t] = "call") =>
               attempt'[t] = attempt[t] + 1]_vars

C14_Witness ==
  \E t \in tasks :
    /\ path[t] = "factory"
    /\ pc[t] = "done"
    /\ option[t] = Opt("number", FALSE, 3)
    /\ attempt[t] = 3
    /\ calls[t] = 4

\* C15: whenever the last invocation of the wrapped operation failed with
\* an error, serviceCall has failed and not resolved, and the error it failed
\* with is that invocation's error object, not another one.
C15_LastFailureIsPropagated ==
  \A t \in tasks :
    (pc[t] = "done" /\ Failed(t) /\ last[t].value.ty = "object") =>
      /\ result[t].how = "rejected"
      /\ SameObject(last[t].value, result[t].value)

\* everything one call owns
TaskState(t) ==
  << path[t], option[t], internalErrorRetryMaxCount[t], attempt[t], pc[t],
     calls[t], resets[t], last[t], caught[t], result[t] >>

\* what the try block threw to the catch block after the last invocation
CaughtOf(t) ==
  IF last[t].how = "thrown" THEN last[t].value ELSE CatchHandler(last[t].value)

\* the call's counters and outcome are those of the same call run alone:
\* they follow from its own option and its own invocations' outcomes
AsIfAlone(t) ==
  /\ path[t] = "promise" =>
       /\ calls[t] = 0 /\ attempt[t] = 0
       /\ pc[t] = "caught" =>
            (last[t].how = "rejected" /\ caught[t] = CatchHandler(last[t].value))
       /\ pc[t] = "done" =>
            result[t] = IF last[t].how = "resolved"
                        THEN Resolved(last[t].value)
                        ELSE Rejected(CatchHandler(last[t].value))
  /\ path[t] = "factory" =>
       /\ internalErrorRetryMaxCount[t] = RetryMaxCount(option[t])
       /\ attempt[t] <= internalErrorRetryMaxCount[t]
       /\ calls[t] = attempt[t]
                    + (IF pc[t] \in {"await", "caught", "done"} THEN 1 ELSE 0)
       /\ pc[t] = "caught" =>
            (last[t].how = "rejected" /\ caught[t] = CatchHandler(last[t].value))
       /\ (pc[t] = "call" /\ calls[t] > 0) =>
            CatchBlock(CaughtOf(t), attempt[t] - 1,
                       internalErrorRetryMaxCount[t]).act = "continue"
       /\ (pc[t] = "done" /\ last[t].how = "resolved") =>
            result[t] = Resolved(last[t].value)
       /\ (pc[t] = "done" /\ Failed(t)) =>
            LET c == CatchBlock(CaughtOf(t), attempt[t],
                                internalErrorRetryMaxCount[t])
            IN  c.act = "throw" /\ result[t] = Rejected(c.value)

C16_EachAsIfAlone == \A t \in tasks : AsIfAlone(t)

\* C16: with two serviceCalls in flight and their steps interleaved in any
\* order, a step of one call changes nothing the other call owns, and each
\* call's attempt counter, maximum, number of factory invocations and
\* outcome are those of that call run alone.
C16_ConcurrentCallsAreIndependent ==
  /\ []C16_EachAsIfAlone
  /\ [][\A t \in tasks :
          TaskState(t)' # TaskState(t) =>
            \A u \in tasks \ {t} : TaskState(u)' = TaskState(u)]_vars

C16_Witness ==
  /\ tasks = {1, 2}
  /\ pc[1] = "await" /\ pc[2] = "await"
  /\ option[1] = Opt("number", FALSE, 1) /\ option[2] = NoOption
  /\ attempt[1] = 1 /\ attempt[2] = 0
  /\ calls[1] = 2 /\ calls[2] = 1

\* C17: on the factory path the configured internalErrorRetryMaxCount is the
\* maximum only when it is a number >= 0; for an absent, non-number,
\* negative or NaN option the maximum is the default 2, never negative, and
\* a retried failure is followed by another invocation up to 3 in all; with
\* a configured 0 the factory is invoked exactly once.
C17_InvalidOptionFallsBackToDefault ==
  \A t \in tasks :
    path[t] = "factory" =>
      /\ internalErrorRetryMaxCount[t] >= 0
      /\ ConfiguredMax(t) => internalErrorRetryMaxCount[t] = option[t].v
      /\ ~ConfiguredMax(t) =>
           /\ internalErrorRetryMaxCount[t] = DefaultRetryMaxCount
           /\ calls[t] <= DefaultRetryMaxCount + 1
           /\ (Failed(t) /\ pc[t] = "done" /\ Passes(result[t].value)
                 /\ HasResetSignature(result[t].value)) => calls[t] = 3
      /\ option[t] = Opt("number", FALSE, 0) =>
           /\ calls[t] <= 1
           /\ pc[t] = "done" => calls[t] = 1

C17_Witness ==
  \E t \in tasks :
    /\ path[t] = "factory"
    /\ option[t] = Opt("number", FALSE, -1)
    /\ pc[t] = "done"
    /\ calls[t] = 3
    /\ resets[t] = 3

\* C18: on the factory path a value that did not pass isServiceError as the
\* operation produced it is never retried: once an invocation has failed
\* with such a value serviceCall has failed, also when the value is an
\* object carrying code INTERNAL, the marker details and a Metadata.
C18_NonConformingValueNeverRetried ==
  \A t \in tasks :
    (path[t] = "factory" /\ Failed(t) /\ ~Passes(last[t].value)) =>
      /\ pc[t] \in {"caught", "done"}
      /\ pc[t] = "done" => result[t].how = "rejected"

====
